---------------------------- MODULE Spec2Model ----------------------------
(***************************************************************************)
(* A model of pamparser (github.com/StephenBrown2/pamparser): the parser   *)
(* (parser.go), the writer (writer.go) and the editor (editor.go).         *)
(*                                                                         *)
(* Go strings are TLA+ strings; TLC treats a string as the sequence of its *)
(* characters (Len, SubSeq, \o), so the text processing is modelled        *)
(* character by character, as the code does it.  Positions are 1-based:    *)
(* the Go index i is the position i + 1 here.  A Go pointer or map that    *)
(* may be nil is a sequence of length 0 (nil) or 1 (the value).            *)
(***************************************************************************)
EXTENDS Integers, Sequences, FiniteSets, TLC

VARIABLES
    rules,        \* Config.Rules
    comments,     \* Config.Comments
    last,         \* the last editor call: its name, arguments, error and the Config before it
    calls,        \* number of editor calls made on the Config
    input,        \* the physical lines the bufio.Scanner of ParseWithService yields
    isPamD,       \* ParseWithService's isPamD parameter (Config.IsPamD)
    serviceName,  \* ParseWithService's serviceName parameter
    lineNum,      \* ParseWithService's local lineNum
    currentRule,  \* ParseWithService's local currentRule (nil: <<>>)
    currentLine,  \* ParseWithService's local currentLine (strings.Builder)
    perr,         \* the error ParseWithService returned (nil: <<>>)
    pc,           \* where the parse / write / parse round is
    phase,        \* 1: parsing the given text, 2: parsing the writer's output
    first,        \* the Config the first parse returned
    w,            \* the Writer (its settings)
    output        \* the text Writer.Write wrote

editorVars == <<rules, comments, last, calls>>
parserVars == <<input, isPamD, serviceName, lineNum, currentRule, currentLine, perr, pc, phase, first>>
writerVars == <<w, output>>
vars == <<rules, comments, last, calls, input, isPamD, serviceName, lineNum,
          currentRule, currentLine, perr, pc, phase, first, w, output>>

-----------------------------------------------------------------------------
(* Package strings, as far as the code uses it *)

Ch(s, i) == SubSeq(s, i, i)

From(s, i) == SubSeq(s, i, Len(s))

MinOf(S) == CHOOSE x \in S : \A y \in S : x <= y

MaxOf(S) == CHOOSE x \in S : \A y \in S : y <= x

\* the elements of a finite set of numbers, ascending
SortedSeq(S) == [k \in 1..Cardinality(S) |-> CHOOSE x \in S : Cardinality({y \in S : y <= x}) = k]

\* the concatenation of the strings f[lo], ..., f[hi] (by halves, so that the
\* evaluation does not nest as deep as the text is long)
RECURSIVE ConcatRange(_, _, _)
ConcatRange(f, lo, hi) ==
    IF lo > hi THEN ""
    ELSE IF lo = hi THEN f[lo]
    ELSE LET mid == (lo + hi) \div 2
         IN  ConcatRange(f, lo, mid) \o ConcatRange(f, mid + 1, hi)

Concat(f) == ConcatRange(f, 1, Len(f))

\* unicode.IsSpace on the characters a line can hold
WhiteSpace == {" ", "\t", "\n", "\r", "\f"}

TrimLeft(s, cutset) ==
    LET keep == {i \in 1..Len(s) : Ch(s, i) \notin cutset}
    IN  IF keep = {} THEN "" ELSE From(s, MinOf(keep))

TrimRight(s, cutset) ==
    LET keep == {i \in 1..Len(s) : Ch(s, i) \notin cutset}
    IN  IF keep = {} THEN "" ELSE SubSeq(s, 1, MaxOf(keep))

TrimSpace(s) == TrimLeft(TrimRight(s, WhiteSpace), WhiteSpace)

HasPrefix(s, p) == Len(s) >= Len(p) /\ SubSeq(s, 1, Len(p)) = p

HasSuffix(s, p) == Len(s) >= Len(p) /\ SubSeq(s, Len(s) - Len(p) + 1, Len(s)) = p

TrimPrefix(s, p) == IF HasPrefix(s, p) THEN From(s, Len(p) + 1) ELSE s

TrimSuffix(s, p) == IF HasSuffix(s, p) THEN SubSeq(s, 1, Len(s) - Len(p)) ELSE s

Contains(s, sub) == \E i \in 1..(Len(s) - Len(sub) + 1) : SubSeq(s, i, i + Len(sub) - 1) = sub

ContainsAny(s, chars) == \E i \in 1..Len(s) : Ch(s, i) \in chars

UpperLetters == "ABCDEFGHIJKLMNOPQRSTUVWXYZ"
LowerLetters == "abcdefghijklmnopqrstuvwxyz"

ToLowerCh(c) ==
    IF \E i \in 1..Len(UpperLetters) : Ch(UpperLetters, i) = c
    THEN Ch(LowerLetters, CHOOSE i \in 1..Len(UpperLetters) : Ch(UpperLetters, i) = c)
    ELSE c

ToLower(s) == Concat([i \in 1..Len(s) |-> ToLowerCh(Ch(s, i))])

EqualFold(s, t) == ToLower(s) = ToLower(t)

Repeat(s, n) == Concat([i \in 1..n |-> s])

Join(elems, sep) ==
    Concat([i \in 1..(2 * Len(elems) - 1) |-> IF i % 2 = 1 THEN elems[(i + 1) \div 2] ELSE sep])

\* strings.Fields: the maximal runs of non-space characters
Fields(s) ==
    LET starts == {i \in 1..Len(s) : Ch(s, i) \notin WhiteSpace
                                      /\ (i = 1 \/ Ch(s, i - 1) \in WhiteSpace)}
        ends   == {i \in 1..Len(s) : Ch(s, i) \notin WhiteSpace
                                      /\ (i = Len(s) \/ Ch(s, i + 1) \in WhiteSpace)}
    IN  [k \in 1..Cardinality(starts) |-> SubSeq(s, SortedSeq(starts)[k], SortedSeq(ends)[k])]

\* strings.SplitN(s, sep, 2)
SplitN2(s, sep) ==
    IF Contains(s, sep)
    THEN LET i == MinOf({k \in 1..(Len(s) - Len(sep) + 1) : SubSeq(s, k, k + Len(sep) - 1) = sep})
         IN  <<SubSeq(s, 1, i - 1), From(s, i + Len(sep))>>
    ELSE <<s>>

\* strings.ReplaceAll for an old of one character, or of two different
\* characters: its occurrences cannot overlap, so each one is replaced
ReplaceAll(s, old, new) ==
    LET starts == {i \in 1..(Len(s) - Len(old) + 1) : SubSeq(s, i, i + Len(old) - 1) = old}
    IN  Concat([i \in 1..Len(s) |->
                   IF i \in starts THEN new
                   ELSE IF \E j \in starts : j < i /\ i <= j + Len(old) - 1 THEN ""
                   ELSE Ch(s, i)])

(* Package strconv and fmt, as far as the code uses them *)

Digits == "0123456789"

DigitVal(c) == (CHOOSE d \in 1..10 : Ch(Digits, d) = c) - 1

RECURSIVE Atoi(_)
Atoi(s) == IF s = "" THEN 0 ELSE 10 * Atoi(SubSeq(s, 1, Len(s) - 1)) + DigitVal(Ch(s, Len(s)))

RECURSIVE ItoaNat(_)
ItoaNat(n) == IF n < 10 THEN Ch(Digits, n + 1) ELSE ItoaNat(n \div 10) \o Ch(Digits, (n % 10) + 1)

Itoa(n) == IF n < 0 THEN "-" \o ItoaNat(-n) ELSE ItoaNat(n)

\* the longest prefix of s made of characters of the string set
PrefixOf(s, set) ==
    LET stop == {i \in 1..Len(s) : ~\E k \in 1..Len(set) : Ch(set, k) = Ch(s, i)}
    IN  IF stop = {} THEN s ELSE SubSeq(s, 1, MinOf(stop) - 1)

\* fmt.Sscanf(s, "%d", &n): an optional sign, then the run of digits and
\* underscores that scanNumber accepts, which strconv.ParseInt(tok, 10, 64)
\* must take (no underscore); what follows the number is left unread.
Sscanf_d(s) ==
    LET t    == TrimLeft(s, {" ", "\t", "\r"})
        neg  == HasPrefix(t, "-")
        body == IF HasPrefix(t, "-") \/ HasPrefix(t, "+") THEN From(t, 2) ELSE t
        tok  == PrefixOf(body, "0123456789_")
    IN  IF tok = "" \/ Contains(tok, "_")
        THEN [n |-> 0, ok |-> FALSE]
        ELSE [n |-> IF neg THEN 0 - Atoi(tok) ELSE Atoi(tok), ok |-> TRUE]

-----------------------------------------------------------------------------
(* parser.go: the data model *)

\* type Control struct: Simple is nil (<<>>) or points to a keyword, Complex is
\* nil (<<>>) or a map from return value to [jump, n, action]
ZeroControl == [Simple |-> <<>>, Complex |-> <<>>, Optional |-> FALSE]

\* type Rule struct, the zero value Rule{}
ZeroRule ==
    [Control |-> ZeroControl, Service |-> "", Type |-> "", ModulePath |-> "",
     Comment |-> "", DirectiveType |-> "", DirectiveTarget |-> "",
     Arguments |-> <<>>, LineNumber |-> 0, Continuation |-> FALSE,
     IsDirective |-> FALSE]

\* a value of a Complex control: an ActionType or an int (jump)
ActionValue(a) == [jump |-> FALSE, n |-> 0, action |-> a]
JumpValue(n) == [jump |-> TRUE, n |-> n, action |-> ""]

\* m[k] = v on a Go map
MapSet(m, k, v) == [x \in (DOMAIN m) \cup {k} |-> IF x = k THEN v ELSE m[x]]

ModuleTypes == {"account", "auth", "password", "session", "session-noninteractive"}

ControlTypes == {"required", "requisite", "sufficient", "optional", "include", "substack"}

IsValidModuleType(t) == TrimPrefix(ToLower(t), "-") \in ModuleTypes

IsValidControlType(c) == ToLower(c) \in ControlTypes

\* GetModuleTypeOrder without the TrimPrefix: a negated type is unknown to it
GetModuleTypeOrder_NoStrip(moduleType) ==
    CASE moduleType = "account" -> 0
      [] moduleType = "auth" -> 1
      [] moduleType = "password" -> 2
      [] moduleType = "session" -> 3
      [] moduleType = "session-noninteractive" -> 4
      [] OTHER -> 5

GetModuleTypeOrder(moduleType) ==
    LET typeStr == TrimPrefix(moduleType, "-")
    IN  CASE typeStr = "account" -> 0
          [] typeStr = "auth" -> 1
          [] typeStr = "password" -> 2
          [] typeStr = "session" -> 3
          [] typeStr = "session-noninteractive" -> 4
          [] OTHER -> 5

\* GetNormalizedModuleType without the TrimPrefix
GetNormalizedModuleType_NoStrip(moduleType) == moduleType

GetNormalizedModuleType(moduleType) == TrimPrefix(moduleType, "-")

-----------------------------------------------------------------------------
(* parser.go: the control field *)

\* controlPattern ^\[([^\]]+)\]$
MatchControlPattern(s) ==
    /\ Len(s) >= 3
    /\ Ch(s, 1) = "["
    /\ Ch(s, Len(s)) = "]"
    /\ ~Contains(SubSeq(s, 2, Len(s) - 1), "]")

RECURSIVE parseComplexPairs(_, _)
parseComplexPairs(pairs, complex) ==
    IF Len(pairs) = 0 THEN [complex |-> complex, err |-> ""]
    ELSE LET parts == SplitN2(pairs[1], "=")
         IN  IF Len(parts) # 2
             THEN [complex |-> complex, err |-> "invalid control pair"]
             ELSE LET scan == Sscanf_d(parts[2])
                      value == IF scan.ok THEN JumpValue(scan.n) ELSE ActionValue(parts[2])
                  IN  parseComplexPairs(Tail(pairs), MapSet(complex, parts[1], value))

parseComplexControl(controlStr, optional) ==
    LET inner == TrimPrefix(TrimSuffix(controlStr, "]"), "[")
        res   == parseComplexPairs(Fields(inner), <<>>)
    IN  [control |-> [Simple |-> <<>>, Complex |-> <<res.complex>>, Optional |-> optional],
         err |-> res.err]

parseControl(controlStr0) ==
    LET optional   == HasPrefix(controlStr0, "-")
        controlStr == IF optional THEN From(controlStr0, 2) ELSE controlStr0
    IN  IF MatchControlPattern(controlStr)
        THEN parseComplexControl(controlStr, optional)
        ELSE IF ~IsValidControlType(ToLower(controlStr))
             THEN [control |-> ZeroControl, err |-> "invalid control type"]
             ELSE [control |-> [Simple |-> <<ToLower(controlStr)>>, Complex |-> <<>>,
                                Optional |-> optional],
                   err |-> ""]

-----------------------------------------------------------------------------
(* parser.go: arguments and tokens *)

\* one character of the inner loop of parseArguments over a bracketed
\* argument: skip is set when the previous character was an escaping backslash,
\* end is the position after the bracket that closed the argument (0 until then)
bracketStep(argStr, st, i) ==
    IF st.end # 0 THEN st
    ELSE IF st.skip THEN [st EXCEPT !.skip = FALSE]
    ELSE CASE Ch(argStr, i) = "\\" /\ i < Len(argStr) -> [st EXCEPT !.skip = TRUE]
           [] Ch(argStr, i) = "[" -> [st EXCEPT !.depth = st.depth + 1]
           [] Ch(argStr, i) = "]" ->
                  [st EXCEPT !.depth = st.depth - 1,
                             !.end = IF st.depth = 1 THEN i + 1 ELSE 0]
           [] OTHER -> st

RECURSIVE bracketRange(_, _, _, _)
bracketRange(argStr, st, lo, hi) ==
    IF lo > hi THEN st
    ELSE IF lo = hi THEN bracketStep(argStr, st, lo)
    ELSE LET mid  == (lo + hi) \div 2
             left == bracketRange(argStr, st, lo, mid)
         IN  IF left.end # 0 THEN left ELSE bracketRange(argStr, left, mid + 1, hi)

\* the inner loop from position i at depth 1: where it stops, and at what depth
scanBracketed(argStr, i, depth) ==
    LET st == bracketRange(argStr, [depth |-> depth, skip |-> FALSE, end |-> 0], i, Len(argStr))
    IN  [i |-> IF st.end # 0 THEN st.end ELSE Len(argStr) + 1, depth |-> st.depth]

skipBlanks(argStr, i) ==
    MinOf({j \in i..(Len(argStr) + 1) : j > Len(argStr) \/ Ch(argStr, j) \notin {" ", "\t"}})

scanRegular(argStr, i) ==
    MinOf({j \in i..(Len(argStr) + 1) : j > Len(argStr) \/ Ch(argStr, j) \in {" ", "\t", "["}})

RECURSIVE parseArgumentsFrom(_, _, _)
parseArgumentsFrom(argStr, i0, args) ==
    IF i0 > Len(argStr) THEN args
    ELSE LET i == skipBlanks(argStr, i0)
         IN  IF i > Len(argStr) THEN args
             ELSE IF Ch(argStr, i) = "["
                  THEN LET end == scanBracketed(argStr, i + 1, 1)
                           content == SubSeq(argStr, i + 1, end.i - 2)
                           unescaped == ReplaceAll(ReplaceAll(content, "\\]", "]"), "\\[", "[")
                       IN  parseArgumentsFrom(argStr, end.i,
                               IF end.depth = 0 THEN Append(args, unescaped) ELSE args)
                  ELSE LET j == scanRegular(argStr, i)
                       IN  parseArgumentsFrom(argStr, j,
                               IF j > i THEN Append(args, SubSeq(argStr, i, j - 1)) ELSE args)

parseArguments(argStr) ==
    IF argStr = "" THEN <<>> ELSE parseArgumentsFrom(TrimSpace(argStr), 1, <<>>)

FlushToken(tokens, current) == IF current # "" THEN Append(tokens, current) ELSE tokens

\* one rune of tokenizeLine; done is set by the return at a # outside brackets
tokenizeStep(line, st, i) ==
    LET r == Ch(line, i)
    IN  IF st.done THEN st
        ELSE CASE r = "[" ->
                    IF ~st.inBrackets
                    THEN [st EXCEPT !.tokens = FlushToken(st.tokens, st.current),
                                    !.current = "[", !.inBrackets = TRUE]
                    ELSE [st EXCEPT !.current = st.current \o r]
               [] r = "]" ->
                    IF st.inBrackets
                    THEN [st EXCEPT !.tokens = Append(st.tokens, st.current \o r),
                                    !.current = "", !.inBrackets = FALSE]
                    ELSE [st EXCEPT !.current = st.current \o r]
               [] r \in {" ", "\t"} ->
                    IF st.inBrackets
                    THEN [st EXCEPT !.current = st.current \o r]
                    ELSE [st EXCEPT !.tokens = FlushToken(st.tokens, st.current),
                                    !.current = ""]
               [] r = "#" ->
                    IF ~st.inBrackets
                    THEN [st EXCEPT !.tokens = Append(FlushToken(st.tokens, st.current),
                                                      From(line, i)),
                                    !.current = "", !.done = TRUE]
                    ELSE [st EXCEPT !.current = st.current \o r]
               [] OTHER -> [st EXCEPT !.current = st.current \o r]

RECURSIVE tokenizeRange(_, _, _, _)
tokenizeRange(line, st, lo, hi) ==
    IF lo > hi THEN st
    ELSE IF lo = hi THEN tokenizeStep(line, st, lo)
    ELSE LET mid  == (lo + hi) \div 2
             left == tokenizeRange(line, st, lo, mid)
         IN  IF left.done THEN left ELSE tokenizeRange(line, left, mid + 1, hi)

tokenizeLine(line) ==
    LET st == tokenizeRange(line, [tokens |-> <<>>, current |-> "", inBrackets |-> FALSE,
                                   done |-> FALSE], 1, Len(line))
    IN  FlushToken(st.tokens, st.current)

-----
(* parser.go: one logical line *)

\* an error of the parser: what it says and the line number it names
ParseError(kind, lineNum_) == <<[kind |-> kind, line |-> lineNum_]>>

LineResult(rule, comment, err) == [rule |-> rule, comment |-> comment, err |-> err]

parseDirective(tokens, rule, lineNum_) ==
    IF Len(tokens) = 0 THEN LineResult(<<>>, "", ParseError("empty directive", lineNum_))
    ELSE IF ~HasPrefix(tokens[1], "@")
    THEN LineResult(<<>>, "", ParseError("expected directive to start with @", lineNum_))
    ELSE LET directiveType == TrimPrefix(tokens[1], "@")
         IN  IF directiveType = "include"
             THEN IF Len(tokens) < 2
                  THEN LineResult(<<>>, "", ParseError("@include directive missing target", lineNum_))
                  ELSE LineResult(
                           <<[rule EXCEPT !.IsDirective = TRUE,
                                          !.DirectiveType = directiveType,
                                          !.DirectiveTarget = tokens[2],
                                          !.Arguments = SubSeq(tokens, 3, Len(tokens))]>>,
                           "", <<>>)
             ELSE LineResult(<<>>, "", ParseError("unknown directive type", lineNum_))

\* commentPattern ^\s*#(.*)$
MatchCommentPattern(s) == HasPrefix(TrimLeft(s, WhiteSpace), "#")

CommentPatternGroup(s) == From(TrimLeft(s, WhiteSpace), 2)

\* the tokens before the first token that starts with #, and that token
FirstCommentToken(tokens) ==
    IF \E i \in 1..Len(tokens) : HasPrefix(tokens[i], "#")
    THEN CHOOSE i \in 1..Len(tokens) :
             /\ HasPrefix(tokens[i], "#")
             /\ \A j \in 1..(i - 1) : ~HasPrefix(tokens[j], "#")
    ELSE 0

\* parseLine from "Parse service" on: the fields of a rule
parseRuleFields(tokens, rule0, lineNum_, isPamD_) ==
    LET tokenIdx1 == IF isPamD_ THEN 1 ELSE 2
        rule1     == IF isPamD_ THEN rule0 ELSE [rule0 EXCEPT !.Service = tokens[1]]
    IN  IF Len(tokens) < tokenIdx1
        THEN LineResult(<<>>, "", ParseError("missing type field", lineNum_))
        ELSE IF ~IsValidModuleType(tokens[tokenIdx1])
        THEN LineResult(<<>>, "", ParseError("invalid module type", lineNum_))
        ELSE IF Len(tokens) < tokenIdx1 + 1
        THEN LineResult(<<>>, "", ParseError("missing control field", lineNum_))
        ELSE LET ctl == parseControl(tokens[tokenIdx1 + 1])
             IN  IF ctl.err # ""
                 THEN LineResult(<<>>, "", ParseError("error parsing control", lineNum_))
                 ELSE IF Len(tokens) < tokenIdx1 + 2
                 THEN LineResult(<<>>, "", ParseError("missing module path", lineNum_))
                 ELSE LineResult(
                          <<[rule1 EXCEPT
                                !.Type = ToLower(tokens[tokenIdx1]),
                                !.Control = ctl.control,
                                !.ModulePath = tokens[tokenIdx1 + 2],
                                !.Arguments =
                                    IF tokenIdx1 + 3 <= Len(tokens)
                                    THEN parseArguments(
                                             Join(SubSeq(tokens, tokenIdx1 + 3, Len(tokens)), " "))
                                    ELSE <<>>]>>,
                          "", <<>>)

parseLine(originalLine, lineNum_, isPamD_, serviceName_) ==
    LET trimmed      == TrimRight(originalLine, {" ", "\t", "\n", "\r"})
        continuation == HasSuffix(trimmed, "\\")
        line         == IF continuation THEN TrimSuffix(trimmed, "\\") ELSE trimmed
    IN  IF MatchCommentPattern(originalLine)
        THEN LineResult(<<>>, TrimSpace(CommentPatternGroup(originalLine)), <<>>)
        ELSE IF TrimSpace(line) = ""
        THEN LineResult(<<>>, "", <<>>)
        ELSE LET allTokens == tokenizeLine(line)
                 c         == FirstCommentToken(allTokens)
                 tokens    == IF c = 0 THEN allTokens ELSE SubSeq(allTokens, 1, c - 1)
                 rule      == [ZeroRule EXCEPT
                                  !.LineNumber = lineNum_,
                                  !.Continuation = continuation,
                                  !.Service = IF isPamD_ /\ serviceName_ # ""
                                              THEN serviceName_ ELSE "",
                                  !.Comment = IF c = 0 THEN ""
                                              ELSE TrimSpace(From(allTokens[c], 2))]
             IN  IF Len(allTokens) = 0 \/ Len(tokens) = 0
                 THEN LineResult(<<>>, "", ParseError("empty rule", lineNum_))
                 ELSE IF HasPrefix(tokens[1], "@")
                 THEN parseDirective(tokens, rule, lineNum_)
                 ELSE parseRuleFields(tokens, rule, lineNum_, isPamD_)

-----------------------------------------------------------------------------
(* writer.go: formatting one rule *)

\* the printable ASCII characters in byte order, for sort.Strings (a TLA+ string
\* cannot hold a backquote)
AsciiOrder ==
    " !\"#$%&'()*+,-./0123456789:;<=>?@ABCDEFGHIJKLMNOPQRSTUVWXYZ[\\]^_abcdefghijklmnopqrstuvwxyz{|}~"

CharRank(c) ==
    IF \E i \in 1..Len(AsciiOrder) : Ch(AsciiOrder, i) = c
    THEN CHOOSE i \in 1..Len(AsciiOrder) : Ch(AsciiOrder, i) = c
    ELSE 0

RECURSIVE StrLess(_, _)
StrLess(a, b) ==
    IF a = "" THEN b # ""
    ELSE IF b = "" THEN FALSE
    ELSE IF Ch(a, 1) = Ch(b, 1) THEN StrLess(From(a, 2), From(b, 2))
    ELSE CharRank(Ch(a, 1)) < CharRank(Ch(b, 1))

\* sort.Strings over the keys of a map
RECURSIVE SortStrings(_)
SortStrings(S) ==
    IF S = {} THEN <<>>
    ELSE LET m == CHOOSE x \in S : \A y \in S \ {x} : StrLess(x, y)
         IN  <<m>> \o SortStrings(S \ {m})

\* NewWriter()
NewWriter ==
    [MaxLineLength |-> 100, ContinuationIndent |-> 4, PrettyFormat |-> FALSE,
     TypeColumnWidth |-> 8, ControlColumnWidth |-> 12, ModuleColumnWidth |-> 20]

formatControlValue(v) == IF v.jump THEN Itoa(v.n) ELSE v.action

formatControl(control) ==
    LET prefix == IF control.Optional THEN "-" ELSE ""
    IN  IF control.Simple # <<>> THEN prefix \o control.Simple[1]
        ELSE IF control.Complex # <<>>
        THEN LET m     == control.Complex[1]
                 keys  == SortStrings(DOMAIN m)
                 pairs == [i \in 1..Len(keys) |-> keys[i] \o "=" \o formatControlValue(m[keys[i]])]
             IN  prefix \o "[" \o Join(pairs, " ") \o "]"
        ELSE prefix

formatArgument(arg) ==
    IF ContainsAny(arg, {" ", "\t", "\n", "[", "]"})
    THEN "[" \o ReplaceAll(arg, "]", "\\]") \o "]"
    ELSE arg

formatArguments(args) ==
    IF Len(args) = 0 THEN ""
    ELSE Join([i \in 1..Len(args) |-> formatArgument(args[i])], " ")

Max(a, b) == IF a >= b THEN a ELSE b

formatPrettyRule(wr, typeStr, controlStr, modulePath, arguments) ==
    LET typePadding    == Max(wr.TypeColumnWidth - Len(typeStr), 1)
        controlPadding == Max(wr.ControlColumnWidth - Len(controlStr), 1)
        modulePadding  == Max(wr.ModuleColumnWidth - Len(modulePath), 1)
        line == typeStr \o Repeat(" ", typePadding) \o controlStr
                    \o Repeat(" ", controlPadding) \o modulePath
    IN  IF Len(arguments) > 0
        THEN line \o Repeat(" ", modulePadding) \o formatArguments(arguments)
        ELSE line

formatRule(wr, rule) ==
    IF rule.IsDirective
    THEN "@" \o rule.DirectiveType \o " " \o rule.DirectiveTarget
            \o (IF Len(rule.Arguments) > 0 THEN " " \o formatArguments(rule.Arguments) ELSE "")
            \o (IF rule.Comment # "" THEN " # " \o rule.Comment ELSE "")
    ELSE LET controlStr == formatControl(rule.Control)
             parts == (IF rule.Service # "" THEN <<rule.Service>> ELSE <<>>)
                        \o <<rule.Type, controlStr, rule.ModulePath>>
                        \o (IF Len(rule.Arguments) > 0
                            THEN <<formatArguments(rule.Arguments)>> ELSE <<>>)
             line == IF wr.PrettyFormat /\ rule.Service = ""
                     THEN formatPrettyRule(wr, rule.Type, controlStr, rule.ModulePath,
                                           rule.Arguments)
                     ELSE Join(parts, " ")
         IN  line \o (IF rule.Comment # "" THEN " # " \o rule.Comment ELSE "")

-----------------------------------------------------------------------------
(* writer.go: folding a long line *)

\* iterations of the folding loop the model follows before it gives the loop up
\* as not terminating
FoldFuel == 8

\* the break point of one iteration: the last space at a Go index in
\* (MaxLineLength/2, MaxLineLength - 1], or MaxLineLength
breakPoint(wr, remaining) ==
    LET cands == {i \in (wr.MaxLineLength \div 2 + 1)..(wr.MaxLineLength - 1) :
                      Ch(remaining, i + 1) = " "}
    IN  IF cands = {} THEN wr.MaxLineLength
        ELSE CHOOSE i \in cands : \A j \in cands : j <= i

RECURSIVE foldLoop(_, _, _, _)
foldLoop(wr, remaining, lines, fuel) ==
    IF Len(remaining) <= wr.MaxLineLength
    THEN [lines |-> IF remaining # "" THEN Append(lines, remaining) ELSE lines,
          terminated |-> TRUE]
    ELSE IF fuel = 0 THEN [lines |-> lines, terminated |-> FALSE]
    ELSE LET bp   == breakPoint(wr, remaining)
             cur  == TrimSpace(SubSeq(remaining, 1, bp)) \o " \\"
             rest == TrimSpace(From(remaining, bp + 1))
             next == IF rest # "" THEN Repeat(" ", wr.ContinuationIndent) \o rest ELSE rest
         IN  IF next = remaining
             THEN \* the next iteration starts from the same remaining: the loop never ends
                  [lines |-> Append(lines, cur), terminated |-> FALSE]
             ELSE foldLoop(wr, next, Append(lines, cur), fuel - 1)

handleLineContinuation(wr, line) ==
    IF wr.MaxLineLength <= 0 \/ Len(line) <= wr.MaxLineLength
    THEN [lines |-> <<line>>, terminated |-> TRUE]
    ELSE foldLoop(wr, line, <<>>, FoldFuel)

-----------------------------------------------------------------------------
(* writer.go: Write *)

SeqToSet(s) == {s[i] : i \in 1..Len(s)}

\* the sequences that list every element of S once: the orders in which a
\* range over a Go map with key set S can yield its keys
Orders(S) ==
    {p \in [1..Cardinality(S) -> S] : \A i, j \in 1..Cardinality(S) : p[i] = p[j] => i = j}

\* typeGroups[key]
typeGroup(rs, key) == SelectSeq(rs, LAMBDA r : GetNormalizedModuleType(r.Type) = key)

RECURSIVE appendGroups(_, _)
appendGroups(rs, keys) ==
    IF Len(keys) = 0 THEN <<>>
    ELSE typeGroup(rs, keys[1]) \o appendGroups(rs, Tail(keys))

WriterTypeOrder == <<"account", "auth", "password", "session">>

\* the keys of typeGroups that the second loop of sortRulesByType ranges over
writerUnknownTypes(rs) ==
    {GetNormalizedModuleType(r.Type) : r \in {x \in SeqToSet(rs) : ~x.IsDirective}}
        \ SeqToSet(WriterTypeOrder)

\* Writer.sortRulesByType; mapOrder is the order in which the range over
\* typeGroups yields the types outside typeOrder
sortRulesByType(rs, mapOrder) ==
    LET directives   == SelectSeq(rs, LAMBDA r : r.IsDirective)
        regularRules == SelectSeq(rs, LAMBDA r : ~r.IsDirective)
    IN  appendGroups(regularRules, WriterTypeOrder)
            \o appendGroups(regularRules, mapOrder) \o directives

\* the loop of Write over configCopy.Rules
RECURSIVE writeRules(_, _, _, _, _)
writeRules(wr, rs, lines, currentNormalizedType, terminated) ==
    IF Len(rs) = 0 THEN [lines |-> lines, terminated |-> terminated]
    ELSE LET rule    == rs[1]
             newType == ~rule.IsDirective
                            /\ GetNormalizedModuleType(rule.Type) # currentNormalizedType
             lines1  == IF newType /\ Len(lines) > 0 /\ ~HasPrefix(lines[Len(lines)], "#")
                        THEN Append(lines, "") ELSE lines
             folded  == handleLineContinuation(wr, formatRule(wr, rule))
         IN  writeRules(wr, Tail(rs), lines1 \o folded.lines,
                        IF newType THEN GetNormalizedModuleType(rule.Type)
                        ELSE currentNormalizedType,
                        terminated /\ folded.terminated)

writeLines(lines) == Concat([i \in 1..Len(lines) |-> lines[i] \o "\n"])

\* Writer.Write on a sink that takes every byte: the text written
WriteText(wr, rs, cs, mapOrder) ==
    LET commentLines == [i \in 1..Len(cs) |-> "# " \o cs[i]]
        res == writeRules(wr, sortRulesByType(rs, mapOrder), commentLines, "", TRUE)
    IN  [text |-> writeLines(res.lines), terminated |-> res.terminated]

\* bufio.ScanLines: the lines of a text, without the line ends
ScanLines(text) ==
    LET ends == SortedSeq({i \in 1..Len(text) : Ch(text, i) = "\n"})
        n    == Len(ends)
        last_ == IF n = 0 THEN 0 ELSE ends[n]
        full == [k \in 1..n |->
                    TrimSuffix(SubSeq(text, IF k = 1 THEN 1 ELSE ends[k - 1] + 1, ends[k] - 1),
                               "\r")]
    IN  IF last_ < Len(text) THEN Append(full, TrimSuffix(From(text, last_ + 1), "\r"))
        ELSE full

-----------------------------------------------------------------------------
(* Bounds and inputs of the parse / write / parse round *)

\* the longest text given to the parser, in physical lines
MaxLines == 3

\* physical lines of a one-file-per-service text
PamDLines ==
    {"auth required pam_unix.so nullok try_first_pass",
     "session required pam_unix.so a \\",
     "b \\",
     "account required pam_unix.so",
     "@include common-auth",
     "# note",
     "bogus required pam_unix.so",
     "auth required pam_unix.so [a\\[b]"}

\* physical lines of a single-file-many-services text
PamConfLines ==
    {"sshd auth required pam_unix.so",
     "sshd account required pam_unix.so a \\",
     "login session required pam_unix.so"}

TextsOver(lines) == UNION {[1..n -> lines] : n \in 1..MaxLines}

\* the service names given to ParseWithService: none, and one taken from a path
ServiceNames == {"", "sshd"}

\* the writers a Config is written with: NewWriter(), one with a shorter
\* MaxLineLength, and one whose ContinuationIndent is more than half its
\* MaxLineLength
WriterSettings ==
    {NewWriter,
     [NewWriter EXCEPT !.MaxLineLength = 40],
     [NewWriter EXCEPT !.MaxLineLength = 20, !.ContinuationIndent = 12]}

NoCall ==
    [op |-> "", err |-> FALSE, pre |-> <<>>, preComments |-> <<>>, rule |-> <<>>,
     index |-> 0, to |-> 0, filter |-> <<>>, result |-> <<>>]

\* the locals of ParseWithService before its loop
ParserStart ==
    /\ rules = <<>>
    /\ comments = <<>>
    /\ lineNum = 0
    /\ currentRule = <<>>
    /\ currentLine = ""
    /\ perr = <<>>
    /\ pc = "scan"

InitParse ==
    /\ \/ isPamD = TRUE /\ input \in TextsOver(PamDLines)
       \/ isPamD = FALSE /\ input \in TextsOver(PamConfLines)
    /\ serviceName \in ServiceNames
    /\ ParserStart
    /\ phase = 1
    /\ first = <<>>
    /\ w = NewWriter
    /\ output = ""
    /\ last = NoCall
    /\ calls = 0

-----------------------------------------------------------------------------
(* parser.go: ParseWithService, one step per physical line *)

\* what a parsed line adds to the Config
AddParsed(res) ==
    /\ rules' = IF res.rule # <<>> THEN Append(rules, res.rule[1]) ELSE rules
    /\ comments' = IF res.rule = <<>> /\ res.comment # ""
                   THEN Append(comments, res.comment) ELSE comments

\* return nil, err
ParseFails(err) ==
    /\ perr' = err
    /\ pc' = "failed"
    /\ UNCHANGED <<rules, comments>>

\* the loop body when currentRule is nil: parseLine on the physical line
ParseWithService_Line ==
    /\ pc = "scan"
    /\ lineNum < Len(input)
    /\ currentRule = <<>>
    /\ lineNum' = lineNum + 1
    /\ LET line == input[lineNum + 1]
           res  == parseLine(line, lineNum + 1, isPamD, serviceName)
       IN  IF res.err # <<>>
           THEN ParseFails(res.err) /\ UNCHANGED <<currentRule, currentLine>>
           ELSE IF res.rule # <<>> /\ res.rule[1].Continuation
           THEN /\ currentRule' = res.rule
                /\ currentLine' = currentLine \o SubSeq(line, 1, Len(line) - 1)
                /\ UNCHANGED <<rules, comments, perr, pc>>
           ELSE /\ AddParsed(res)
                /\ UNCHANGED <<currentRule, currentLine, perr, pc>>
    /\ UNCHANGED <<input, isPamD, serviceName, phase, first, last, calls, w, output>>

\* the loop body when currentRule is not nil: handleContinuation.  Its
\* "currentRule = nil" assigns to its own parameter, so the caller's currentRule
\* keeps its value; currentLine is reset through the pointer.
handleContinuation ==
    /\ pc = "scan"
    /\ lineNum < Len(input)
    /\ currentRule # <<>>
    /\ lineNum' = lineNum + 1
    /\ LET line     == input[lineNum + 1]
           complete == currentLine \o " " \o TrimSpace(line)
       IN  IF ~HasSuffix(TrimSpace(line), "\\")
           THEN LET res == parseLine(complete, currentRule[1].LineNumber, isPamD, serviceName)
                IN  IF res.err # <<>>
                    THEN ParseFails(res.err) /\ UNCHANGED currentLine
                    ELSE /\ AddParsed(res)
                         /\ currentLine' = ""
                         /\ UNCHANGED <<perr, pc>>
           ELSE /\ currentLine' = complete
                /\ UNCHANGED <<rules, comments, perr, pc>>
    /\ UNCHANGED <<currentRule, input, isPamD, serviceName, phase, first, last, calls, w, output>>

\* the scanner is at the end of the input: return config, nil
ParseWithService_Return ==
    /\ pc = "scan"
    /\ lineNum = Len(input)
    /\ pc' = "done"
    /\ UNCHANGED <<rules, comments, lineNum, currentRule, currentLine, perr, input, isPamD,
                   serviceName, phase, first, last, calls, w, output>>

\* SetPrettyFormat(true).AnalyzeAndSetColumnWidths(config)
AnalyzeAndSetColumnWidths(wr, rs) ==
    LET counted == {k \in 1..Len(rs) : ~rs[k].IsDirective /\ rs[k].Service = ""}
        widest(S) == IF S = {} THEN 0 ELSE MaxOf(S)
    IN  [wr EXCEPT !.PrettyFormat = TRUE,
                   !.TypeColumnWidth = widest({Len(rs[k].Type) : k \in counted}) + 2,
                   !.ControlColumnWidth =
                       widest({Len(formatControl(rs[k].Control)) : k \in counted}) + 2,
                   !.ModuleColumnWidth = widest({Len(rs[k].ModulePath) : k \in counted}) + 2]

\* config.Rules after Write: sortRulesByType assigns the sorted rules to
\* configCopy, a copy of *config with a Rules array of its own
rulesAfterWrite_InPlace(rs, sorted) == sorted

rulesAfterWrite(rs, sorted) == rs

\* Write(config, writer) by the writer wr on a sink that takes every byte
writeConfig(op, wr, mapOrder) ==
    LET res == WriteText(wr, rules, comments, mapOrder)
    IN  /\ w' = wr
        /\ output' = res.text
        /\ pc' = IF res.terminated THEN "written" ELSE "writing"
        /\ rules' = rulesAfterWrite(rules, sortRulesByType(rules, mapOrder))
        /\ comments' = comments
        /\ last' = [NoCall EXCEPT !.op = op, !.pre = rules, !.preComments = comments,
                                  !.result = <<mapOrder>>]

\* writer.WriteString(config) on the Config the first parse returned
Write ==
    /\ pc = "done"
    /\ phase = 1
    /\ \E wr \in WriterSettings, mapOrder \in Orders(writerUnknownTypes(rules)) :
          writeConfig("Write", wr, mapOrder)
    /\ UNCHANGED <<lineNum, currentRule, currentLine, perr, input, isPamD,
                   serviceName, phase, first, calls>>

\* writer.WritePrettyString(config)
WritePretty ==
    /\ pc = "done"
    /\ phase = 1
    /\ \E wr \in WriterSettings, mapOrder \in Orders(writerUnknownTypes(rules)) :
          writeConfig("WritePretty", AnalyzeAndSetColumnWidths(wr, rules), mapOrder)
    /\ UNCHANGED <<lineNum, currentRule, currentLine, perr, input, isPamD,
                   serviceName, phase, first, calls>>

\* parser.Parse on the text written, with the same format flag
Reparse ==
    /\ pc = "written"
    /\ phase = 1
    /\ first' = <<[Rules |-> rules, Comments |-> comments]>>
    /\ input' = ScanLines(output)
    /\ phase' = 2
    /\ rules' = <<>>
    /\ comments' = <<>>
    /\ lineNum' = 0
    /\ currentRule' = <<>>
    /\ currentLine' = ""
    /\ perr' = <<>>
    /\ pc' = "scan"
    /\ UNCHANGED <<isPamD, serviceName, last, calls, w, output>>

NextParse ==
    \/ ParseWithService_Line
    \/ handleContinuation
    \/ ParseWithService_Return
    \/ Write
    \/ Reparse

SpecParse == InitParse /\ [][NextParse]_vars


-----------------------------------------------------------------------------
(* editor.go: the Editor over config.Rules and config.Comments.  Indices are
   Go's, from 0: rs[index + 1] is e.config.Rules[index]. *)

\* FilterByService, FilterByType, FilterByModulePath, FilterByControl, as values
FilterByService(service) == [kind |-> "service", arg |-> service]

FilterByType(moduleType) == [kind |-> "type", arg |-> moduleType]

FilterByModulePath(modulePath) == [kind |-> "modulePath", arg |-> modulePath]

FilterByControl(control) == [kind |-> "control", arg |-> control]

\* filter(rule)
Matches(filter, rule) ==
    CASE filter.kind = "service" -> EqualFold(rule.Service, filter.arg)
      [] filter.kind = "type" -> rule.Type = filter.arg
      [] filter.kind = "modulePath" -> Contains(rule.ModulePath, filter.arg)
      [] filter.kind = "control" ->
             rule.Control.Simple # <<>> /\ rule.Control.Simple[1] = filter.arg

\* index < 0 || index >= len(e.config.Rules)
OutOfRange(index, rs) == index < 0 \/ index >= Len(rs)

\* append(rs, Rule{}); copy(rs[index+1:], rs[index:]); rs[index] = rule
InsertAt(rs, index, rule) == SubSeq(rs, 1, index) \o <<rule>> \o SubSeq(rs, index + 1, Len(rs))

\* append(rs[:index], rs[index+1:]...)
RemoveAt(rs, index) == SubSeq(rs, 1, index) \o SubSeq(rs, index + 2, Len(rs))

\* what a call leaves in last
Call(op, err, rule, index, to, filter, result) ==
    [op |-> op, err |-> err, pre |-> rules, preComments |-> comments, rule |-> rule,
     index |-> index, to |-> to, filter |-> filter, result |-> result]

\* a call that returns an error, or reads only
Untouched == UNCHANGED <<rules, comments>>

GetRule(index) ==
    /\ last' = Call("GetRule", OutOfRange(index, rules), <<>>, index, 0, <<>>,
                    IF OutOfRange(index, rules) THEN <<>>
                    ELSE LET rule == rules[index + 1]
                         IN  <<[ZeroRule EXCEPT !.Service = rule.Service,
                                                !.Type = rule.Type,
                                                !.Control = rule.Control,
                                                !.ModulePath = rule.ModulePath,
                                                !.Arguments = rule.Arguments,
                                                !.Comment = rule.Comment,
                                                !.LineNumber = rule.LineNumber,
                                                !.Continuation = rule.Continuation]>>)
    /\ Untouched
    /\ UNCHANGED <<parserVars, writerVars>>

\* findInsertPosition returning i where the code returns i + 1
findInsertPosition_AtMatch(rs, moduleType) ==
    LET targetOrder == GetModuleTypeOrder(moduleType)
        found == {i \in 0..(Len(rs) - 1) : GetModuleTypeOrder(rs[i + 1].Type) <= targetOrder}
    IN  IF found = {} THEN 0 ELSE MaxOf(found)

findInsertPosition(rs, moduleType) ==
    LET targetOrder == GetModuleTypeOrder(moduleType)
        found == {i \in 0..(Len(rs) - 1) : GetModuleTypeOrder(rs[i + 1].Type) <= targetOrder}
    IN  IF found = {} THEN 0 ELSE MaxOf(found) + 1

AddRule(rule) ==
    /\ last' = Call("AddRule", FALSE, <<rule>>, 0, 0, <<>>, <<>>)
    /\ rules' = IF rule.IsDirective THEN Append(rules, rule)
                ELSE InsertAt(rules, findInsertPosition(rules, rule.Type), rule)
    /\ UNCHANGED <<comments, parserVars, writerVars>>

InsertRule(index, rule) ==
    /\ last' = Call("InsertRule", index < 0 \/ index > Len(rules), <<rule>>, index, 0, <<>>, <<>>)
    /\ IF index < 0 \/ index > Len(rules) THEN Untouched
       ELSE rules' = InsertAt(rules, index, rule) /\ UNCHANGED comments
    /\ UNCHANGED <<parserVars, writerVars>>

\* the indices of the rules the filter matches
matchIndices(rs, filter) == {i \in 0..(Len(rs) - 1) : Matches(filter, rs[i + 1])}

InsertRuleBefore(rule, filter) ==
    LET found == matchIndices(rules, filter)
    IN  /\ last' = Call("InsertRuleBefore", found = {}, <<rule>>, 0, 0, <<filter>>, <<>>)
        /\ IF found = {} THEN Untouched
           ELSE rules' = InsertAt(rules, MinOf(found), rule) /\ UNCHANGED comments
        /\ UNCHANGED <<parserVars, writerVars>>

\* the loop of InsertRuleAfter stopping at the first match
lastMatchIndex_First(rs, filter) ==
    IF matchIndices(rs, filter) = {} THEN -1 ELSE MinOf(matchIndices(rs, filter))

\* the loop of InsertRuleAfter: lastMatchIndex, -1 when no rule matches
lastMatchIndex(rs, filter) ==
    IF matchIndices(rs, filter) = {} THEN -1 ELSE MaxOf(matchIndices(rs, filter))

InsertRuleAfter(rule, filter) ==
    LET lastMatch == lastMatchIndex(rules, filter)
    IN  /\ last' = Call("InsertRuleAfter", lastMatch = -1, <<rule>>, 0, 0, <<filter>>, <<>>)
        /\ IF lastMatch = -1 THEN Untouched
           ELSE rules' = InsertAt(rules, lastMatch + 1, rule) /\ UNCHANGED comments
        /\ UNCHANGED <<parserVars, writerVars>>

UpdateRule(index, rule) ==
    /\ last' = Call("UpdateRule", OutOfRange(index, rules), <<rule>>, index, 0, <<>>, <<>>)
    /\ IF OutOfRange(index, rules) THEN Untouched
       ELSE rules' = [rules EXCEPT ![index + 1] = rule] /\ UNCHANGED comments
    /\ UNCHANGED <<parserVars, writerVars>>

RemoveRule(index) ==
    /\ last' = Call("RemoveRule", OutOfRange(index, rules), <<>>, index, 0, <<>>, <<>>)
    /\ IF OutOfRange(index, rules) THEN Untouched
       ELSE rules' = RemoveAt(rules, index) /\ UNCHANGED comments
    /\ UNCHANGED <<parserVars, writerVars>>

RemoveRules(filter) ==
    /\ last' = Call("RemoveRules", FALSE, <<>>, 0, 0, <<filter>>,
                    <<Cardinality(matchIndices(rules, filter))>>)
    /\ rules' = SelectSeq(rules, LAMBDA r : ~Matches(filter, r))
    /\ UNCHANGED <<comments, parserVars, writerVars>>

\* the argument that names argName
NamesArgument(arg, argName) == HasPrefix(arg, argName \o "=") \/ arg = argName

UpdateArgument(ruleIndex, argName, argValue) ==
    /\ last' = Call("UpdateArgument", OutOfRange(ruleIndex, rules), <<>>, ruleIndex, 0, <<>>,
                    <<argName, argValue>>)
    /\ IF OutOfRange(ruleIndex, rules) THEN Untouched
       ELSE LET args  == rules[ruleIndex + 1].Arguments
                found == {i \in 1..Len(args) : NamesArgument(args[i], argName)}
                args1 == IF found = {} THEN Append(args, argName \o "=" \o argValue)
                         ELSE [args EXCEPT ![MinOf(found)] = argName \o "=" \o argValue]
            IN  /\ rules' = [rules EXCEPT ![ruleIndex + 1].Arguments = args1]
                /\ UNCHANGED comments
    /\ UNCHANGED <<parserVars, writerVars>>

RemoveArgument(ruleIndex, argName) ==
    /\ last' = Call("RemoveArgument", OutOfRange(ruleIndex, rules), <<>>, ruleIndex, 0, <<>>,
                    <<argName>>)
    /\ IF OutOfRange(ruleIndex, rules) THEN Untouched
       ELSE /\ rules' = [rules EXCEPT ![ruleIndex + 1].Arguments =
                            SelectSeq(@, LAMBDA arg : ~NamesArgument(arg, argName))]
            /\ UNCHANGED comments
    /\ UNCHANGED <<parserVars, writerVars>>

SetControl(ruleIndex, control) ==
    /\ last' = Call("SetControl", OutOfRange(ruleIndex, rules), <<>>, ruleIndex, 0, <<>>,
                    <<control>>)
    /\ IF OutOfRange(ruleIndex, rules) THEN Untouched
       ELSE rules' = [rules EXCEPT ![ruleIndex + 1].Control = control] /\ UNCHANGED comments
    /\ UNCHANGED <<parserVars, writerVars>>

\* MoveRule checking toIndex only after it has removed the rule
MoveRule_RemoveFirst(fromIndex, toIndex) ==
    /\ last' = Call("MoveRule", OutOfRange(fromIndex, rules) \/ OutOfRange(toIndex, rules),
                    <<>>, fromIndex, toIndex, <<>>, <<>>)
    /\ IF OutOfRange(fromIndex, rules) THEN Untouched
       ELSE IF OutOfRange(toIndex, rules)
       THEN rules' = RemoveAt(rules, fromIndex) /\ UNCHANGED comments
       ELSE IF fromIndex = toIndex THEN Untouched
       ELSE /\ rules' = InsertAt(RemoveAt(rules, fromIndex),
                                 IF toIndex > fromIndex THEN toIndex - 1 ELSE toIndex,
                                 rules[fromIndex + 1])
            /\ UNCHANGED comments
    /\ UNCHANGED <<parserVars, writerVars>>

\* MoveRule without the adjustment of toIndex after the removal
MoveRule_NoAdjust(fromIndex, toIndex) ==
    /\ last' = Call("MoveRule", OutOfRange(fromIndex, rules) \/ OutOfRange(toIndex, rules),
                    <<>>, fromIndex, toIndex, <<>>, <<>>)
    /\ IF OutOfRange(fromIndex, rules) \/ OutOfRange(toIndex, rules) THEN Untouched
       ELSE IF fromIndex = toIndex THEN Untouched
       ELSE /\ rules' = InsertAt(RemoveAt(rules, fromIndex), toIndex, rules[fromIndex + 1])
            /\ UNCHANGED comments
    /\ UNCHANGED <<parserVars, writerVars>>

MoveRule(fromIndex, toIndex) ==
    /\ last' = Call("MoveRule", OutOfRange(fromIndex, rules) \/ OutOfRange(toIndex, rules),
                    <<>>, fromIndex, toIndex, <<>>, <<>>)
    /\ IF OutOfRange(fromIndex, rules) \/ OutOfRange(toIndex, rules) THEN Untouched
       ELSE IF fromIndex = toIndex THEN Untouched
       ELSE /\ rules' = InsertAt(RemoveAt(rules, fromIndex),
                                 IF toIndex > fromIndex THEN toIndex - 1 ELSE toIndex,
                                 rules[fromIndex + 1])
            /\ UNCHANGED comments
    /\ UNCHANGED <<parserVars, writerVars>>

AddComment(comment) ==
    /\ last' = Call("AddComment", FALSE, <<>>, 0, 0, <<>>, <<comment>>)
    /\ comments' = Append(comments, comment)
    /\ UNCHANGED <<rules, parserVars, writerVars>>

EditorTypeOrder == <<"account", "auth", "password", "session", "session-noninteractive">>

\* the keys of typeGroups that the second loop of SortRulesByType ranges over
editorUnknownTypes(rs) ==
    {GetNormalizedModuleType(r.Type) : r \in SeqToSet(rs)} \ SeqToSet(EditorTypeOrder)

\* sortedRules of SortRulesByType; mapOrder is the order in which the range
\* over typeGroups yields the types outside typeOrder
sortedRules(rs, mapOrder) == appendGroups(rs, EditorTypeOrder) \o appendGroups(rs, mapOrder)

SortRulesByType(mapOrder) ==
    /\ last' = Call("SortRulesByType", FALSE, <<>>, 0, 0, <<>>, <<>>)
    /\ rules' = sortedRules(rules, mapOrder)
    /\ UNCHANGED <<comments, parserVars, writerVars>>

-----------------------------------------------------------------------------
(* Bounds and inputs of the editor calls *)

MkRule(type, control, modulePath, args) ==
    [ZeroRule EXCEPT !.Type = type,
                     !.Control = [Simple |-> <<control>>, Complex |-> <<>>, Optional |-> FALSE],
                     !.ModulePath = modulePath,
                     !.Arguments = args]

MkInclude(target) ==
    [ZeroRule EXCEPT !.IsDirective = TRUE, !.DirectiveType = "include",
                     !.DirectiveTarget = target]

SeqsUpTo(S, n) == UNION {[1..k -> S] : k \in 0..n}

\* the longest Configuration an editor is created on, in entries
MaxRules == 3

\* the entries of the Configurations an editor is created on
EditorRules ==
    {MkRule("account", "required", "pam_unix.so", <<>>),
     MkRule("session", "required", "pam_unix.so", <<>>),
     MkRule("-session", "optional", "pam_systemd.so", <<>>),
     MkRule("auth", "required", "pam_unix.so", <<"nullok", "retry=3">>),
     MkInclude("common-auth")}

\* the rules handed to the calls that take one
NewRules ==
    {MkRule("auth", "requisite", "pam_nologin.so", <<>>),
     MkInclude("common-session")}

Filters ==
    {FilterByType("auth"), FilterByModulePath("pam_unix"), FilterByControl("optional"),
     FilterByService("sshd")}

ArgNames == {"retry", "debug"}

\* the Control values handed to SetControl: a keyword, a mapping, the zero
\* value Control{}, and one with both Simple and Complex set
Controls ==
    {[Simple |-> <<"sufficient">>, Complex |-> <<>>, Optional |-> FALSE],
     [Simple |-> <<>>, Complex |-> <<MapSet(<<>>, "default", ActionValue("ignore"))>>,
      Optional |-> FALSE],
     ZeroControl,
     [Simple |-> <<"required">>, Complex |-> <<MapSet(<<>>, "success", ActionValue("ok"))>>,
      Optional |-> FALSE]}

\* the parser and the writer are not running
ParserIdle ==
    /\ input = <<>>
    /\ isPamD = TRUE
    /\ serviceName = ""
    /\ lineNum = 0
    /\ currentRule = <<>>
    /\ currentLine = ""
    /\ perr = <<>>
    /\ pc = "idle"
    /\ phase = 0
    /\ first = <<>>
    /\ w = NewWriter
    /\ output = ""

\* NewEditor(config) on any Configuration
Init ==
    /\ rules \in SeqsUpTo(EditorRules, MaxRules)
    /\ comments = <<"note">>
    /\ last = NoCall
    /\ calls = 0
    /\ ParserIdle

\* the editor takes one call
Once == calls = 0 /\ calls' = 1

\* one call on the editor
Next ==
    \/ \E index \in -1..(Len(rules) + 1) : Once /\ GetRule(index)
    \/ \E rule \in NewRules : Once /\ AddRule(rule)
    \/ \E index \in -1..(Len(rules) + 1), rule \in NewRules : Once /\ InsertRule(index, rule)
    \/ \E rule \in NewRules, filter \in Filters : Once /\ InsertRuleBefore(rule, filter)
    \/ \E rule \in NewRules, filter \in Filters : Once /\ InsertRuleAfter(rule, filter)
    \/ \E index \in -1..(Len(rules) + 1), rule \in NewRules : Once /\ UpdateRule(index, rule)
    \/ \E index \in -1..(Len(rules) + 1) : Once /\ RemoveRule(index)
    \/ \E filter \in Filters : Once /\ RemoveRules(filter)
    \/ \E index \in -1..(Len(rules) + 1), argName \in ArgNames : Once /\ UpdateArgument(index, argName, "5")
    \/ \E index \in -1..(Len(rules) + 1), argName \in ArgNames : Once /\ RemoveArgument(index, argName)
    \/ \E index \in -1..(Len(rules) + 1), control \in Controls : Once /\ SetControl(index, control)
    \/ \E fromIndex, toIndex \in -1..(Len(rules) + 1) : Once /\ MoveRule(fromIndex, toIndex)
    \/ Once /\ AddComment("added")
    \/ \E mapOrder \in Orders(editorUnknownTypes(rules)) : Once /\ SortRulesByType(mapOrder)

Spec == Init /\ [][Next]_vars

\* the most AddRule and RemoveRule calls made on one editor
MaxAddCalls == 3

\* rules of every valid category, negated or not, and a directive
AddableRules ==
    {MkRule("account", "required", "pam_unix.so", <<>>),
     MkRule("auth", "required", "pam_unix.so", <<>>),
     MkRule("-auth", "optional", "pam_gnome_keyring.so", <<>>),
     MkRule("password", "required", "pam_unix.so", <<>>),
     MkRule("session", "required", "pam_unix.so", <<>>),
     MkRule("-session", "optional", "pam_systemd.so", <<>>),
     MkRule("session-noninteractive", "required", "pam_unix.so", <<>>),
     MkInclude("common-auth")}

\* NewEditor(&Config{})
InitAdd ==
    /\ rules = <<>>
    /\ comments = <<>>
    /\ last = NoCall
    /\ calls = 0
    /\ ParserIdle

\* the editor takes one more call, up to n
Counted(n) == calls < n /\ calls' = calls + 1

NextAdd ==
    \/ \E rule \in AddableRules : Counted(MaxAddCalls) /\ AddRule(rule)
    \/ \E index \in -1..Len(rules) : Counted(MaxAddCalls) /\ RemoveRule(index)

SpecAdd == InitAdd /\ [][NextAdd]_vars

\* the longest Configuration sorted, in entries
MaxSortRules == 3

\* the most SortRulesByType calls made on one editor
MaxSorts == 2

\* rules of valid categories, negated or not, of two unrecognised categories,
\* and a directive
SortableRules ==
    {MkRule("session", "required", "pam_unix.so", <<>>),
     MkRule("auth", "required", "pam_unix.so", <<>>),
     MkRule("-auth", "optional", "pam_gnome_keyring.so", <<>>),
     MkRule("foo", "required", "pam_foo.so", <<>>),
     MkRule("bar", "required", "pam_bar.so", <<>>),
     MkInclude("common-auth")}

InitSort ==
    /\ rules \in SeqsUpTo(SortableRules, MaxSortRules)
    /\ comments = <<>>
    /\ last = NoCall
    /\ calls = 0
    /\ ParserIdle

NextSort ==
    \E mapOrder \in Orders(editorUnknownTypes(rules)) : Counted(MaxSorts) /\ SortRulesByType(mapOrder)

SpecSort == InitSort /\ [][NextSort]_vars

-----------------------------------------------------------------------------
(* What the specification says of a text, stated on the text itself *)

\* a physical line that ends in a backslash
EndsInBackslash(l) == HasSuffix(TrimRight(l, WhiteSpace), "\\")

\* the physical lines on which a logical line starts
StartsLogical(txt, i) == i \in 1..Len(txt) /\ (i = 1 \/ ~EndsInBackslash(txt[i - 1]))

\* the physical line on which the logical line starting at i ends (beyond the
\* text when its last line still ends in a backslash)
LogicalEnd(txt, i) ==
    MinOf({j \in i..(Len(txt) + 1) : j > Len(txt) \/ ~EndsInBackslash(txt[j])})

\* the content of the logical line starting at i, written on a single line
SingleLine(txt, i) ==
    Concat([k \in 1..(LogicalEnd(txt, i) - i + 1) |->
               IF i + k - 1 < LogicalEnd(txt, i)
               THEN TrimSuffix(TrimRight(txt[i + k - 1], WhiteSpace), "\\")
               ELSE txt[i + k - 1]])

\* the logical line starting at i is complete, and is a rule or a directive
\* when written on a single line
IsEntryLine(txt, i) ==
    /\ StartsLogical(txt, i)
    /\ LogicalEnd(txt, i) <= Len(txt)
    /\ parseLine(SingleLine(txt, i), i, isPamD, serviceName).rule # <<>>

\* the logical line starting at i is complete, and is structurally invalid
IsInvalidLine(txt, i) ==
    /\ StartsLogical(txt, i)
    /\ LogicalEnd(txt, i) <= Len(txt)
    /\ parseLine(SingleLine(txt, i), i, isPamD, serviceName).err # <<>>

\* the fields of an entry that do not depend on where it stood in the text
Entry(r) == [r EXCEPT !.LineNumber = 0, !.Continuation = FALSE]

Entries(rs) == [k \in 1..Len(rs) |-> Entry(rs[k])]

\* the categories in their fixed order
Categories == <<"account", "auth", "password", "session", "session-noninteractive">>

\* the category of a rule, negation marker ignored
Category(r) == IF HasPrefix(r.Type, "-") THEN From(r.Type, 2) ELSE r.Type

OfCategory(rs, c) == SelectSeq(rs, LAMBDA r : ~r.IsDirective /\ Category(r) = c)

DirectivesOf(rs) == SelectSeq(rs, LAMBDA r : r.IsDirective)

\* the entries by category in the fixed order, the directives trailing
ByCategory(rs) ==
    OfCategory(rs, Categories[1]) \o OfCategory(rs, Categories[2])
        \o OfCategory(rs, Categories[3]) \o OfCategory(rs, Categories[4])
        \o OfCategory(rs, Categories[5]) \o DirectivesOf(rs)

ParseEnded == pc \in {"done", "failed"}

-----------------------------------------------------------------------------
(* Claims on parsing and on the parse / write / parse round *)

\* C1: a Configuration parsed from valid text, written with Writer.Write and
\* parsed again with the same format flag, has the same entries field for
\* field, by category in the fixed order, the directives trailing in their
\* original relative order.
C1_RoundTrip ==
    (phase = 2 /\ ParseEnded) =>
        /\ pc = "done"
        /\ Entries(rules) = Entries(ByCategory(first[1].Rules))

\* C8: a valid line split at whitespace into N >= 2 physical lines, each but the
\* last ending in a backslash, parses to exactly one entry, equal in its fields
\* to the entry of the single-line form, and no argument is a backslash.
C8_ContinuationEqualsSingleLine ==
    (/\ phase = 1
     /\ ParseEnded
     /\ Len(input) >= 2
     /\ LogicalEnd(input, 1) = Len(input)
     /\ IsEntryLine(input, 1)) =>
        /\ pc = "done"
        /\ Len(rules) = 1
        /\ Entry(rules[1]) = Entry(parseLine(SingleLine(input, 1), 1, isPamD, serviceName).rule[1])
        /\ \A k \in 1..Len(rules[1].Arguments) : rules[1].Arguments[k] # "\\"

\* C9: once a physical line without a trailing backslash has completed a
\* continued logical line the parser holds no pending rule, and every entry
\* records the number of the physical line on which its logical line starts.
C9_NormalAfterContinuation ==
    (phase = 1 /\ pc \in {"scan", "done"}) =>
        /\ (lineNum >= 1 /\ ~EndsInBackslash(input[lineNum])) => currentRule = <<>>
        /\ [k \in 1..Len(rules) |-> rules[k].LineNumber]
               = SortedSeq({i \in 1..lineNum : IsEntryLine(input, i) /\ LogicalEnd(input, i) <= lineNum})

\* C10: when a logical line is structurally invalid and the lines before it
\* are valid, Parse returns an error that names the number of the physical line
\* on which that logical line starts.
C10_ErrorNamesStartLine ==
    (/\ phase = 1
     /\ ParseEnded
     /\ \E i \in 1..Len(input) : IsInvalidLine(input, i)) =>
        LET i0 == MinOf({i \in 1..Len(input) : IsInvalidLine(input, i)})
        IN  (\A j \in 1..(i0 - 1) : StartsLogical(input, j) => LogicalEnd(input, j) <= Len(input))
                => /\ pc = "failed"
                   /\ perr[1].line = i0

-----------------------------------------------------------------------------
(* What the specification says of an entry sequence *)

\* the place of an entry's category in the fixed order, the unrecognised
\* categories after all of them
CategoryRank(r) ==
    IF \E k \in 1..Len(Categories) : Categories[k] = Category(r)
    THEN CHOOSE k \in 1..Len(Categories) : Categories[k] = Category(r)
    ELSE Len(Categories) + 1

\* the category order is non-decreasing along the rules, and every directive
\* comes after every rule
Grouped(rs) ==
    \A i, j \in 1..Len(rs) :
        i < j => /\ ~(rs[i].IsDirective /\ ~rs[j].IsDirective)
                 /\ (~rs[i].IsDirective /\ ~rs[j].IsDirective)
                        => CategoryRank(rs[i]) <= CategoryRank(rs[j])

\* rs with r as its p-th entry, the entries of rs in their order around it
WithEntryAt(rs, p, r) == SubSeq(rs, 1, p - 1) \o <<r>> \o SubSeq(rs, p, Len(rs))

\* the places of the entries of rs that satisfy the predicate
Satisfying(rs, filter) == {k \in 1..Len(rs) : Matches(filter, rs[k])}

OnlyAccountAndSession(rs) ==
    \A k \in 1..Len(rs) : ~rs[k].IsDirective /\ Category(rs[k]) \in {"account", "session"}

AccountBeforeSession(rs) ==
    \A i, j \in 1..Len(rs) :
        i < j => ~(Category(rs[i]) = "session" /\ Category(rs[j]) = "account")

\* the call added an auth rule to a Configuration of account and session rules
AddedAuth ==
    /\ last.op = "AddRule"
    /\ ~last.rule[1].IsDirective
    /\ Category(last.rule[1]) = "auth"
    /\ OnlyAccountAndSession(last.pre)

\* the new rule stands after every account rule and before every session rule
StrictlyBetween ==
    \E p \in 1..Len(rules) :
        /\ rules = WithEntryAt(last.pre, p, last.rule[1])
        /\ \A i \in 1..(p - 1) : Category(rules[i]) = "account"
        /\ \A i \in (p + 1)..Len(rules) : Category(rules[i]) = "session"

-----------------------------------------------------------------------------
(* Claims on the editor *)

\* C2: from an empty Configuration, after any sequence of AddRule and
\* RemoveRule calls the entry sequence is grouped: the category order is
\* non-decreasing along the rules and every directive comes after every rule.
C2_AlwaysGrouped == Grouped(rules)

\* an AddRule that put a rule ahead of a rule and of a directive
C2_Witness ==
    /\ last.op = "AddRule"
    /\ ~last.rule[1].IsDirective
    /\ Len(rules) >= 3
    /\ rules[1] = last.rule[1]
    /\ \E k \in 1..Len(rules) : rules[k].IsDirective
    /\ \E k \in 1..Len(rules) : HasPrefix(rules[k].Type, "-")

\* C3: applying SortRulesByType to a sequence that SortRulesByType produced
\* leaves it as it is.
C3_SortIdempotent == calls >= 2 => rules = last.pre

\* C4: SortRulesByType yields a permutation of the prior sequence in which the
\* groups stand in the order account, auth, password, session,
\* session-noninteractive, then the unrecognised categories, each group in one
\* piece, and the rules of one normalized category keep their relative order.
C4_StableRegrouping ==
    last.op = "SortRulesByType" =>
        /\ Len(rules) = Len(last.pre)
        /\ \A c \in {Category(last.pre[k]) : k \in 1..Len(last.pre)}
                    \cup {Category(rules[k]) : k \in 1..Len(rules)} :
               SelectSeq(rules, LAMBDA r : Category(r) = c)
                   = SelectSeq(last.pre, LAMBDA r : Category(r) = c)
        /\ \A i, j \in 1..Len(rules) : i < j => CategoryRank(rules[i]) <= CategoryRank(rules[j])
        /\ \A i, j, k \in 1..Len(rules) :
               (i < j /\ j < k /\ Category(rules[i]) = Category(rules[k]))
                   => Category(rules[j]) = Category(rules[i])

\* a sort that moved a negated and a plain rule of one category ahead of a rule
\* of an unrecognised category
C4_Witness ==
    /\ last.op = "SortRulesByType"
    /\ rules # last.pre
    /\ \E i, j \in 1..Len(rules) :
           /\ i < j
           /\ Category(rules[i]) = Category(rules[j])
           /\ rules[i].Type # rules[j].Type
    /\ \E k \in 1..Len(rules) : CategoryRank(rules[k]) > Len(Categories)

\* C5 as stated: in every Configuration of only account and session rules,
\* AddRule of an auth rule places it after every account rule and before every
\* session rule.
C5_AuthBetween == AddedAuth => StrictlyBetween

\* C5 amended: it does so when every account rule of the Configuration stands
\* before every session rule.
C5_AuthBetweenWhenGrouped == (AddedAuth /\ AccountBeforeSession(last.pre)) => StrictlyBetween

\* an auth rule added to account rules followed by session rules
C5_Witness ==
    /\ AddedAuth
    /\ AccountBeforeSession(last.pre)
    /\ \E k \in 1..Len(last.pre) : Category(last.pre[k]) = "account"
    /\ \E k \in 1..Len(last.pre) : Category(last.pre[k]) = "session"

\* C6: when an entry satisfies the predicate, InsertRuleBefore succeeds and puts
\* the new rule immediately before the first satisfying entry, InsertRuleAfter
\* succeeds and puts it immediately after the last one, and the stored entries
\* keep their order.
C6_InsertedAtMatch ==
    (last.op \in {"InsertRuleBefore", "InsertRuleAfter"}
         /\ Satisfying(last.pre, last.filter[1]) # {}) =>
        /\ ~last.err
        /\ rules = WithEntryAt(last.pre,
                               IF last.op = "InsertRuleBefore"
                               THEN MinOf(Satisfying(last.pre, last.filter[1]))
                               ELSE MaxOf(Satisfying(last.pre, last.filter[1])) + 1,
                               last.rule[1])

\* an InsertRuleAfter on a Configuration where two entries satisfy the predicate
\* and the last of them is not the last entry
C6_Witness ==
    /\ last.op = "InsertRuleAfter"
    /\ Cardinality(Satisfying(last.pre, last.filter[1])) >= 2
    /\ MaxOf(Satisfying(last.pre, last.filter[1]) \cup {0}) < Len(last.pre)

\* C7: an editor call that returns an error leaves the entry sequence and the
\* comments as they were before the call.
C7_ErrorLeavesConfig == last.err => (rules = last.pre /\ comments = last.preComments)

\* a MoveRule from a valid index to an index outside the range
C7_Witness ==
    /\ last.op = "MoveRule"
    /\ last.err
    /\ ~OutOfRange(last.index, last.pre)
    /\ Len(last.pre) >= 2

-----------------------------------------------------------------------------
(* Writing a Configuration: Write and WritePretty on any Configuration *)

\* the longest Configuration written, in entries
MaxWriteRules == 3

\* a rule whose control is the mapping of pairs given as <<key, value>>
MkComplexRule(type, optional, pairs, modulePath, args) ==
    [ZeroRule EXCEPT !.Type = type,
                     !.Control = [Simple |-> <<>>,
                                  Complex |-> <<[k \in {p[1] : p \in pairs} |->
                                                   (CHOOSE p \in pairs : p[1] = k)[2]]>>,
                                  Optional |-> optional],
                     !.ModulePath = modulePath,
                     !.Arguments = args]

\* the entries of the Configurations written
WritableRules ==
    {MkRule("session", "required", "pam_unix.so", <<>>),
     MkRule("account", "required", "pam_unix.so", <<"debug">>),
     MkComplexRule("auth", FALSE,
                   {<<"success", ActionValue("ok")>>, <<"default", ActionValue("bad")>>,
                    <<"ignore", JumpValue(2)>>},
                   "pam_unix.so", <<>>),
     MkRule("session-noninteractive", "optional", "pam_unix.so", <<>>),
     MkRule("foo", "required", "pam_foo.so", <<>>),
     MkRule("bar", "required", "pam_bar.so", <<>>),
     MkInclude("common-auth")}

\* a Configuration, parsed or built, about to be written
InitWrite ==
    /\ rules \in SeqsUpTo(WritableRules, MaxWriteRules)
    /\ comments \in {<<>>, <<"managed">>}
    /\ input = <<>>
    /\ isPamD = TRUE
    /\ serviceName = ""
    /\ lineNum = 0
    /\ currentRule = <<>>
    /\ currentLine = ""
    /\ perr = <<>>
    /\ pc = "done"
    /\ phase = 1
    /\ first = <<>>
    /\ w = NewWriter
    /\ output = ""
    /\ last = NoCall
    /\ calls = 0

NextWrite ==
    \/ Write
    \/ WritePretty

SpecWrite == InitWrite /\ [][NextWrite]_vars

\* a write has returned
Written == pc = "written" /\ last.op \in {"Write", "WritePretty"}

\* no line of the write was folded
NothingFolded ==
    \A k \in 1..Len(last.pre) : Len(formatRule(w, last.pre[k])) <= w.MaxLineLength

\* the lines of the output that render an entry: neither blank nor comments
EntryLines ==
    SelectSeq(ScanLines(output), LAMBDA line : line # "" /\ ~HasPrefix(line, "#"))

\* rs regrouped as the categories prescribe: p is a permutation of the places of
\* rs, the entries taken in the order p are grouped with every category in one
\* run, and entries of one category, and the directives, keep their order
Regroups(rs, p) ==
    LET out == [k \in 1..Len(rs) |-> rs[p[k]]]
    IN  /\ Grouped(out)
        /\ \A i, j \in 1..Len(rs) :
              (i < j /\ out[i].IsDirective = out[j].IsDirective
                     /\ (out[i].IsDirective \/ Category(out[i]) = Category(out[j])))
                  => /\ p[i] < p[j]
                     /\ \A m \in i..j : out[m].IsDirective = out[i].IsDirective
                                         /\ (out[m].IsDirective
                                                \/ Category(out[m]) = Category(out[i]))

\* C11: the entry lines of the output of Write are the stored entries, grouped
\* by category in the order account, auth, password, session,
\* session-noninteractive, then the unknown categories, each group and the
\* directives in their stored order, the directives after every rule
C11_OutputGrouped ==
    (Written /\ NothingFolded) =>
        \E p \in Orders(1..Len(last.pre)) :
            /\ Regroups(last.pre, p)
            /\ EntryLines = [k \in 1..Len(last.pre) |-> formatRule(w, last.pre[p[k]])]

\* C12: Write, WriteString and WritePretty leave the Configuration as it was:
\* the entries, in their order and in every field, and the comments are those
\* of before the call, also when the writer regrouped the rules for its output
C12_WriteLeavesConfig ==
    last.op \in {"Write", "WritePretty"} =>
        /\ rules = last.pre
        /\ comments = last.preComments

\* a write has returned whose output is in another order than the stored one
C12_Witness ==
    /\ Written
    /\ last.op = "WritePretty"
    /\ sortRulesByType(last.pre, last.result[1]) # last.pre
    /\ rules = last.pre
    /\ last.preComments # <<>>

\* C13: Write is deterministic: whatever text one execution wrote for a
\* Configuration with given writer settings, every execution writes
C13_WriteDeterministic ==
    Written =>
        \A mapOrder \in Orders(writerUnknownTypes(last.pre)) :
            WriteText(w, last.pre, last.preComments, mapOrder).text = output

\* C14: Write terminates: the folding loop of no rendered line comes back to
\* the remaining text it started an iteration with, so no write stays in it
C14_WriteTerminates == pc # "writing"

-----------------------------------------------------------------------------
(* Arguments written and read back: formatArguments, then parseArguments *)

\* the longest argument written, in characters
MaxArgLen == 3

\* the characters of the arguments written
ArgChars == {"a", " ", "[", "]", "\\"}

\* the arguments written: the texts of one to MaxArgLen characters
ArgTexts == {Concat(cs) : cs \in SeqsUpTo(ArgChars, MaxArgLen) \ {<<>>}}

\* the variables that neither formatArguments nor a tokenizer uses
TextIdle ==
    /\ rules = <<>>
    /\ comments = <<>>
    /\ isPamD = TRUE
    /\ serviceName = ""
    /\ lineNum = 0
    /\ currentRule = <<>>
    /\ currentLine = ""
    /\ perr = <<>>
    /\ phase = 0
    /\ first = <<>>
    /\ w = NewWriter
    /\ last = NoCall
    /\ calls = 0

\* a rule with one argument, about to be written
InitArgs ==
    /\ input \in {<<arg>> : arg \in ArgTexts}
    /\ output = ""
    /\ pc = "args"
    /\ TextIdle

\* w.formatArguments(rule.Arguments), as formatRule calls it
FormatArguments ==
    /\ pc = "args"
    /\ output' = formatArguments(input)
    /\ pc' = "formatted"
    /\ UNCHANGED <<rules, comments, last, calls, input, isPamD, serviceName, lineNum,
                   currentRule, currentLine, perr, phase, first, w>>

\* p.parseArguments on the text written
ParseArguments ==
    /\ pc = "formatted"
    /\ last' = [NoCall EXCEPT !.op = "parseArguments", !.result = parseArguments(output)]
    /\ pc' = "parsed"
    /\ UNCHANGED <<rules, comments, calls, input, output, isPamD, serviceName, lineNum,
                   currentRule, currentLine, perr, phase, first, w>>

NextArgs ==
    \/ FormatArguments
    \/ ParseArguments

SpecArgs == InitArgs /\ [][NextArgs]_vars

\* C15: an argument that holds white space or a bracket, written by
\* formatArguments and read by parseArguments, is read as the same argument
C15_ArgumentRoundTrip ==
    (pc = "parsed" /\ ContainsAny(input[1], {" ", "\t", "\n", "[", "]"})) => last.result = input

-----------------------------------------------------------------------------
(* editor.go: GetConfig, and writes through the Config it returns and through
   the Config of the editor.  A Config is [Rules, Comments]; the copy also
   records, for each of its rules, the rule of the editor's Config whose
   Simple pointer it holds (0: none). *)

\* the longest Configuration copied, in entries
MaxCopyRules == 2

\* the entries of the Configurations copied
CopyableRules ==
    {MkRule("auth", "required", "pam_unix.so", <<"nullok">>),
     MkRule("account", "optional", "pam_access.so", <<>>),
     MkComplexRule("session", TRUE,
                   {<<"success", ActionValue("ok")>>, <<"default", ActionValue("bad")>>},
                   "pam_unix.so", <<"debug">>),
     MkInclude("common-auth")}

\* NewEditor(config), no copy taken yet
InitCopy ==
    /\ rules \in SeqsUpTo(CopyableRules, MaxCopyRules)
    /\ comments \in {<<>>, <<"managed">>}
    /\ last = NoCall
    /\ calls = 0
    /\ ParserIdle

\* the Config that GetConfig builds: the Rules array, every Arguments slice,
\* every non-nil Complex map and the Comments are new; Control is copied as a
\* struct, so a non-nil Simple is the pointer of the rule copied
GetConfigCopy(rs, cs) ==
    [Rules |-> rs, Comments |-> cs,
     SimpleOf |-> [i \in 1..Len(rs) |-> IF rs[i].Control.Simple # <<>> THEN i ELSE 0]]

GetConfig ==
    /\ calls = 0
    /\ calls' = 1
    /\ last' = Call("GetConfig", FALSE, <<>>, 0, 0, <<>>, <<GetConfigCopy(rules, comments)>>)
    /\ first' = <<[Rules |-> rules, Comments |-> comments]>>
    /\ UNCHANGED <<rules, comments, input, isPamD, serviceName, lineNum, currentRule,
                   currentLine, perr, pc, phase, w, output>>

\* the Config a caller writes through: the one GetConfig returned ("copy") or
\* the one the editor holds ("config")
Sides == {"copy", "config"}

ConfigOf(side) ==
    IF side = "copy" THEN [Rules |-> last.result[1].Rules, Comments |-> last.result[1].Comments]
    ELSE [Rules |-> rules, Comments |-> comments]

OtherSide(side) == IF side = "copy" THEN "config" ELSE "copy"

\* a write through side has left it with the rules rs and the comments cs, and
\* the other Config with the rules others
Written2(side, op, index, rs, cs, others) ==
    /\ calls' = 2
    /\ rules' = IF side = "config" THEN rs ELSE others
    /\ comments' = IF side = "config" THEN cs ELSE comments
    /\ last' = [last EXCEPT !.op = side \o "." \o op, !.index = index,
                            !.result = <<[last.result[1] EXCEPT
                                 !.Rules = IF side = "copy" THEN rs ELSE others,
                                 !.Comments = IF side = "copy" THEN cs
                                              ELSE last.result[1].Comments]>>]
    /\ UNCHANGED <<input, isPamD, serviceName, lineNum, currentRule, currentLine, perr, pc,
                   phase, first, w, output>>

\* c.Rules[index].Arguments[0] = value
SetArgument(side, index, value) ==
    LET c == ConfigOf(side)
    IN  /\ calls = 1
        /\ index \in 0..(Len(c.Rules) - 1)
        /\ Len(c.Rules[index + 1].Arguments) > 0
        /\ Written2(side, "SetArgument", index,
                    [c.Rules EXCEPT ![index + 1].Arguments[1] = value], c.Comments,
                    ConfigOf(OtherSide(side)).Rules)

\* c.Rules[index].Control.Complex[key] = value
SetComplexEntry(side, index, key, value) ==
    LET c == ConfigOf(side)
    IN  /\ calls = 1
        /\ index \in 0..(Len(c.Rules) - 1)
        /\ c.Rules[index + 1].Control.Complex # <<>>
        /\ Written2(side, "SetComplexEntry", index,
                    [c.Rules EXCEPT ![index + 1].Control.Complex =
                        <<MapSet(c.Rules[index + 1].Control.Complex[1], key, value)>>],
                    c.Comments, ConfigOf(OtherSide(side)).Rules)

\* *c.Rules[index].Control.Simple = value: an assignment to the ControlType
\* that the pointer holds, seen through every pointer to it
SetSimpleValue(side, index, value) ==
    LET c == ConfigOf(side)
        o == ConfigOf(OtherSide(side))
    IN  /\ calls = 1
        /\ index \in 0..(Len(c.Rules) - 1)
        /\ c.Rules[index + 1].Control.Simple # <<>>
        /\ Written2(side, "SetSimpleValue", index,
                    [c.Rules EXCEPT ![index + 1].Control.Simple = <<value>>], c.Comments,
                    [k \in 1..Len(o.Rules) |->
                        IF k = index + 1 /\ last.result[1].SimpleOf[k] = k
                        THEN [o.Rules[k] EXCEPT !.Control.Simple = <<value>>]
                        ELSE o.Rules[k]])

\* c.Rules = append(c.Rules, rule)
AppendRule(side, rule) ==
    LET c == ConfigOf(side)
    IN  /\ calls = 1
        /\ Written2(side, "AppendRule", Len(c.Rules), Append(c.Rules, rule), c.Comments,
                    ConfigOf(OtherSide(side)).Rules)

\* c.Rules = append(c.Rules[:index], c.Rules[index+1:]...)
DeleteRule(side, index) ==
    LET c == ConfigOf(side)
    IN  /\ calls = 1
        /\ index \in 0..(Len(c.Rules) - 1)
        /\ Written2(side, "DeleteRule", index, RemoveAt(c.Rules, index), c.Comments,
                    ConfigOf(OtherSide(side)).Rules)

\* c.Comments = append(c.Comments, comment)
AppendComment(side, comment) ==
    LET c == ConfigOf(side)
    IN  /\ calls = 1
        /\ Written2(side, "AppendComment", Len(c.Comments), c.Rules,
                    Append(c.Comments, comment), ConfigOf(OtherSide(side)).Rules)

\* c.Comments = c.Comments[1:]
DeleteComment(side) ==
    LET c == ConfigOf(side)
    IN  /\ calls = 1
        /\ Len(c.Comments) > 0
        /\ Written2(side, "DeleteComment", 0, c.Rules, Tail(c.Comments),
                    ConfigOf(OtherSide(side)).Rules)

NextCopy ==
    \/ GetConfig
    \/ \E side \in Sides, index \in 0..(MaxCopyRules - 1) : SetArgument(side, index, "changed")
    \/ \E side \in Sides, index \in 0..(MaxCopyRules - 1) :
          SetComplexEntry(side, index, "success", ActionValue("die"))
    \/ \E side \in Sides, index \in 0..(MaxCopyRules - 1) :
          SetSimpleValue(side, index, "sufficient")
    \/ \E side \in Sides, rule \in CopyableRules : AppendRule(side, rule)
    \/ \E side \in Sides, index \in 0..(MaxCopyRules - 1) : DeleteRule(side, index)
    \/ \E side \in Sides : AppendComment(side, "added")
    \/ \E side \in Sides : DeleteComment(side)

SpecCopy == InitCopy /\ [][NextCopy]_vars

\* C16: no write through the Config that GetConfig returned is seen in the
\* Config of the editor, and none through the Config of the editor in the
\* Config returned: the Config not written through is as it was at GetConfig
C16_CopyIndependent ==
    calls = 2 =>
        /\ HasPrefix(last.op, "copy.")
              => rules = first[1].Rules /\ comments = first[1].Comments
        /\ HasPrefix(last.op, "config.")
              => /\ last.result[1].Rules = first[1].Rules
                 /\ last.result[1].Comments = first[1].Comments

-----------------------------------------------------------------------------
(* Claims on the editor's SortRulesByType and on the tokenizer *)

\* C17: SortRulesByType of the editor does not move a directive: every
\* directive is, after the call, at the index it had before it
C17_DirectivesStay ==
    last.op = "SortRulesByType" =>
        \A k \in 1..Len(last.pre) : last.pre[k].IsDirective => rules[k] = last.pre[k]

\* the longest text between the brackets of a span tokenized, in characters
MaxSpanLen == 3

\* the characters between the brackets of the spans tokenized
SpanChars == {"a", " ", "]", "\\", "#"}

\* the lines tokenized: one bracket span, opened by the first character and
\* closed by the last
SpanLines == {"[" \o Concat(cs) \o "]" : cs \in SeqsUpTo(SpanChars, MaxSpanLen)}

InitTokens ==
    /\ input \in {<<line>> : line \in SpanLines}
    /\ output = ""
    /\ pc = "line"
    /\ TextIdle

\* tokenizeLine(line), as parseLine calls it
TokenizeLine ==
    /\ pc = "line"
    /\ last' = [NoCall EXCEPT !.op = "tokenizeLine", !.result = tokenizeLine(input[1])]
    /\ pc' = "tokenized"
    /\ UNCHANGED <<rules, comments, calls, input, output, isPamD, serviceName, lineNum,
                   currentRule, currentLine, perr, phase, first, w>>

NextTokens == TokenizeLine

SpecTokens == InitTokens /\ [][NextTokens]_vars

\* the text between the brackets of the line tokenized
SpanBody == SubSeq(input[1], 2, Len(input[1]) - 1)

\* every "]" of the text is preceded by a backslash, and the text does not end
\* in one
OnlyEscapedBrackets(s) ==
    /\ \A i \in 1..Len(s) : Ch(s, i) = "]" => (i > 1 /\ Ch(s, i - 1) = "\\")
    /\ ~HasSuffix(s, "\\")

\* C18: a "]" preceded by a backslash does not close a bracket span: a span
\* whose only unescaped "]" is its last character is one token, white space
\* after an escaped bracket included
C18_EscapedBracketInSpan ==
    (pc = "tokenized" /\ OnlyEscapedBrackets(SpanBody)) => last.result = input

-----------------------------------------------------------------------------
(* Parsing one rule line with a bracketed control *)

\* the most pairs of a bracketed control parsed
MaxPairs == 2

\* the pairs of the bracketed controls parsed: with one "=", with none, with
\* two; with a keyword, a number, a number followed by a letter, a negative
\* number
ControlPairs ==
    {"success=ok", "default=bad", "ignore=2", "success", "a=b=c", "default==",
     "ignore=2x", "ignore=-1"}

\* the control fields parsed: a bracketed mapping, with and without the "-"
\* before it
ControlTexts ==
    {prefix \o "[" \o Join(pairs, " ") \o "]" :
        prefix \in {"", "-"}, pairs \in SeqsUpTo(ControlPairs, MaxPairs) \ {<<>>}}

RuleLineOf(control) == "auth " \o control \o " pam_unix.so"

\* Parse of a pam.d text of one rule line
InitLine ==
    /\ input \in {<<RuleLineOf(control)>> : control \in ControlTexts}
    /\ isPamD = TRUE
    /\ serviceName = ""
    /\ ParserStart
    /\ phase = 1
    /\ first = <<>>
    /\ w = NewWriter
    /\ output = ""
    /\ last = NoCall
    /\ calls = 0

NextLine ==
    \/ ParseWithService_Line
    \/ ParseWithService_Return

SpecLine == InitLine /\ [][NextLine]_vars

\* the control field of the line parsed, and the pairs between its brackets
ControlField == SubSeq(input[1], Len("auth ") + 1, Len(input[1]) - Len(" pam_unix.so"))

Suppressed == HasPrefix(ControlField, "-")

PairsOf(control) ==
    Fields(TrimPrefix(TrimSuffix(TrimPrefix(control, "-"), "]"), "["))

ExactlyOneEquals(pair) == Cardinality({i \in 1..Len(pair) : Ch(pair, i) = "="}) = 1

WellFormedPairs == \A k \in 1..Len(PairsOf(ControlField)) : ExactlyOneEquals(PairsOf(ControlField)[k])

\* C19: a rule line whose control is "-" followed by a bracketed mapping of
\* well-formed pairs, as in "auth -[success=ok default=bad] pam_unix.so", is
\* parsed without error to a rule with a Complex control and the suppress flag
C19_SuppressedComplexParses ==
    (ParseEnded /\ Suppressed /\ WellFormedPairs) =>
        /\ pc = "done"
        /\ Len(rules) = 1
        /\ rules[1].Control.Complex # <<>>
        /\ rules[1].Control.Simple = <<>>
        /\ rules[1].Control.Optional

\* C20: the parse of a bracketed control fails when one of its pairs does not
\* hold exactly one "=": none, or two or more
C20_MalformedPairRejected ==
    (ParseEnded /\ ~WellFormedPairs) => (pc = "failed" /\ perr # <<>>)

-----------------------------------------------------------------------------
(* Claims on the Configuration an editor holds *)

\* C21: in the Configuration of an editor every rule that is not a directive
\* has exactly one of Control.Simple and Control.Complex set, whatever editor
\* call was made on it
C21_ExactlyOneControl ==
    \A k \in 1..Len(rules) :
        ~rules[k].IsDirective =>
            (rules[k].Control.Simple # <<>>) # (rules[k].Control.Complex # <<>>)

\* C22: a Configuration parsed from a one-file-per-service text with a service
\* name given, once written, is parsed again in the same format with the same
\* service name without error, to the same rules
C22_ServiceRoundTrip ==
    (phase = 2 /\ ParseEnded /\ isPamD /\ serviceName # "") =>
        /\ pc = "done"
        /\ Entries(rules) = Entries(ByCategory(first[1].Rules))

\* C23: an InsertRuleBefore or InsertRuleAfter that succeeds on a Configuration
\* whose rules are grouped by type leaves them grouped by type
C23_InsertKeepsGrouping ==
    (last.op \in {"InsertRuleBefore", "InsertRuleAfter"} /\ ~last.err /\ Grouped(last.pre))
        => Grouped(rules)

\* the index at which MoveRule(from, to) is to leave the rule moved
MovedTo == IF last.to < last.index THEN last.to ELSE last.to - 1

\* rs without its entry of index i
Without(rs, i) == [k \in 1..(Len(rs) - 1) |-> IF k <= i THEN rs[k] ELSE rs[k + 1]]

\* C24: MoveRule(from, to) with valid indices keeps the length and the order
\* of the other rules and leaves the rule moved at index to when to < from and
\* at index to - 1 when to > from; MoveRule(i, i) changes nothing
C24_MoveRulePlaces ==
    (last.op = "MoveRule" /\ ~last.err) =>
        IF last.index = last.to THEN rules = last.pre
        ELSE /\ Len(rules) = Len(last.pre)
             /\ rules[MovedTo + 1] = last.pre[last.index + 1]
             /\ Without(rules, MovedTo) = Without(last.pre, last.index)

\* MoveRule(0, 2) on three different entries [a, b, c] has given [b, a, c]
C24_Witness ==
    /\ last.op = "MoveRule"
    /\ ~last.err
    /\ last.index = 0
    /\ last.to = 2
    /\ Len(last.pre) = 3
    /\ Cardinality({last.pre[k] : k \in 1..3}) = 3
    /\ rules = <<last.pre[2], last.pre[1], last.pre[3]>>

\* C25: GetRule with a valid index returns a rule equal in every field to the
\* entry stored at that index, a rule or a directive
C25_GetRuleEqualsStored ==
    (last.op = "GetRule" /\ ~last.err) => last.result = <<last.pre[last.index + 1]>>

-----------------------------------------------------------------------------
(* editor.go: GetRule, and writes through the Rule it returns *)

\* returned.Arguments[0] = value: the Arguments of the Rule returned are a new
\* slice
ReturnedSetArgument(value) ==
    /\ calls = 1
    /\ calls' = 2
    /\ last.result # <<>>
    /\ Len(last.result[1].Arguments) > 0
    /\ last' = [last EXCEPT !.op = "returned.SetArgument",
                            !.result = <<[last.result[1] EXCEPT !.Arguments[1] = value]>>]
    /\ UNCHANGED <<rules, comments, parserVars, writerVars>>

\* returned.Control.Complex[key] = value: the Control of the Rule returned is
\* the struct of the stored rule, its Complex the same map
ReturnedSetComplexEntry(key, value) ==
    /\ calls = 1
    /\ calls' = 2
    /\ last.result # <<>>
    /\ last.result[1].Control.Complex # <<>>
    /\ last' = [last EXCEPT !.op = "returned.SetComplexEntry",
                            !.result = <<[last.result[1] EXCEPT !.Control.Complex =
                                <<MapSet(last.result[1].Control.Complex[1], key, value)>>]>>]
    /\ rules' = [rules EXCEPT ![last.index + 1].Control.Complex =
                    <<MapSet(rules[last.index + 1].Control.Complex[1], key, value)>>]
    /\ UNCHANGED <<comments, parserVars, writerVars>>

NextGet ==
    \/ \E index \in 0..MaxCopyRules : Once /\ GetRule(index)
    \/ ReturnedSetArgument("changed")
    \/ ReturnedSetComplexEntry("success", ActionValue("die"))

SpecGet == InitCopy /\ [][NextGet]_vars

\* C26: the rule that GetRule returned is a copy of its own: after a write to
\* its arguments or to an entry of its Complex control, the Configuration
\* holds the entries it held
C26_ReturnedRuleIndependent ==
    (calls = 2 /\ HasPrefix(last.op, "returned.")) => rules = last.pre

-----------------------------------------------------------------------------
(* Claims on the values of a bracketed control *)

\* the key and the value text of a pair with one "="
PairKey(pair) == SubSeq(pair, 1, MinOf({i \in 1..Len(pair) : Ch(pair, i) = "="}) - 1)

PairValue(pair) == From(pair, MinOf({i \in 1..Len(pair) : Ch(pair, i) = "="}) + 1)

\* the text is a non-negative decimal integer, all of it
WholeNumber(s) == s # "" /\ \A i \in 1..Len(s) : Ch(s, i) \in {"0", "1", "2", "3", "4", "5", "6", "7", "8", "9"}

\* the places of the pairs of the control whose key no later pair repeats
DecidingPairs ==
    LET pairs == PairsOf(ControlField)
    IN  {k \in 1..Len(pairs) : \A j \in (k + 1)..Len(pairs) : PairKey(pairs[j]) # PairKey(pairs[k])}

\* C27: a value of a bracketed control is stored as a jump only when all of it
\* is a non-negative decimal integer, and else as the action keyword it
\* spells, so that the value written by formatControl is the text parsed
C27_JumpOnlyWholeNumber ==
    (pc = "done" /\ ~Suppressed /\ WellFormedPairs) =>
        \A k \in DecidingPairs :
            LET pair   == PairsOf(ControlField)[k]
                stored == rules[1].Control.Complex[1][PairKey(pair)]
            IN  /\ stored.jump <=> WholeNumber(PairValue(pair))
                /\ ~stored.jump => stored.action = PairValue(pair)
                /\ formatControlValue(stored) = PairValue(pair)

-----------------------------------------------------------------------------
(* Writing one rule and parsing the text written *)

\* the rules written: short ones, and ones longer than a MaxLineLength, to be
\* folded between arguments once or twice, inside a bracketed argument or
\* control, inside a long token, and before the module path
FoldableRules ==
    {MkRule("account", "required", "pam_unix.so", <<>>),
     MkRule("auth", "required", "pam_unix.so", <<"nullok", "try_first_pass">>),
     MkRule("auth", "required", "pam_unix.so",
            <<"nullok", "try_first_pass", "use_authtok", "debug", "audit", "likeauth">>),
     MkRule("auth", "required", "pam_exec.so",
            <<"expose_authtok", "quiet and stdout to /usr/bin/logger">>),
     MkRule("auth", "required", "pam_env.so",
            <<"conffile=/etc/security/environment/defaults.conf">>),
     MkRule("session-noninteractive", "optional", "pam_unix.so", <<>>),
     MkRule("password", "sufficient", "pam_unix.so", <<"sha512", "shadow">>),
     MkRule("session", "required", "pam_limits.so", <<>>),
     MkComplexRule("auth", FALSE,
                   {<<"success", ActionValue("ok")>>, <<"new_authtok_reqd", ActionValue("ok")>>,
                    <<"ignore", ActionValue("ignore")>>, <<"default", ActionValue("bad")>>},
                   "pam_unix.so", <<"nullok">>),
     MkInclude("common-auth"),
     MkInclude("common-session-noninteractive-with-a-long-name")}

\* a Configuration of one entry, about to be written
InitFold ==
    /\ rules \in {<<r>> : r \in FoldableRules}
    /\ comments = <<>>
    /\ input = <<>>
    /\ isPamD = TRUE
    /\ serviceName = ""
    /\ lineNum = 0
    /\ currentRule = <<>>
    /\ currentLine = ""
    /\ perr = <<>>
    /\ pc = "done"
    /\ phase = 1
    /\ first = <<>>
    /\ w = NewWriter
    /\ output = ""
    /\ last = NoCall
    /\ calls = 0

SpecFold == InitFold /\ [][NextParse]_vars

\* the rule written was longer than MaxLineLength on a single line
WasFolded == Len(formatRule(w, first[1].Rules[1])) > w.MaxLineLength

\* C28: the physical lines into which the writer folded a rule longer than
\* MaxLineLength are parsed as one rule, of the category, the control, the
\* module path and the arguments of the rule written
C28_FoldedRuleParsesBack ==
    (phase = 2 /\ ParseEnded /\ ~first[1].Rules[1].IsDirective /\ WasFolded) =>
        /\ pc = "done"
        /\ Len(rules) = 1
        /\ rules[1].Type = first[1].Rules[1].Type
        /\ rules[1].Control = first[1].Rules[1].Control
        /\ rules[1].ModulePath = first[1].Rules[1].ModulePath
        /\ rules[1].Arguments = first[1].Rules[1].Arguments

-----------------------------------------------------------------------------
(* Building a Configuration with AddRule, entry by entry *)

\* NewEditor(&Config{}), and the entries about to be added, in their order
InitBuild ==
    /\ rules = <<>>
    /\ comments = <<>>
    /\ last = NoCall
    /\ calls = 0
    /\ first \in {<<[Rules |-> rs, Comments |-> <<>>]>> : rs \in SeqsUpTo(AddableRules, MaxAddCalls)}
    /\ input = <<>>
    /\ isPamD = TRUE
    /\ serviceName = ""
    /\ lineNum = 0
    /\ currentRule = <<>>
    /\ currentLine = ""
    /\ perr = <<>>
    /\ pc = "idle"
    /\ phase = 0
    /\ w = NewWriter
    /\ output = ""

\* AddRule of the next of the entries
NextBuild ==
    /\ calls < Len(first[1].Rules)
    /\ calls' = calls + 1
    /\ AddRule(first[1].Rules[calls + 1])

SpecBuild == InitBuild /\ [][NextBuild]_vars

\* the entries added so far, in the order they were given in
Given == SubSeq(first[1].Rules, 1, calls)

\* C29: the entries added one by one with AddRule to an empty Configuration
\* stand as SortRulesByType would leave them, had they been stored in the
\* order given and sorted once
C29_AddRuleEqualsSort ==
    \A mapOrder \in Orders(editorUnknownTypes(Given)) : rules = sortedRules(Given, mapOrder)

\* three entries were added, a directive first, a rule of a later category
\* before two rules of one earlier category, the second of them negated
C29_Witness ==
    /\ calls = 3
    /\ Given[1].IsDirective
    /\ ~Given[2].IsDirective
    /\ ~Given[3].IsDirective
    /\ GetModuleTypeOrder(Given[3].Type) < GetModuleTypeOrder(Given[2].Type)
    /\ rules = <<Given[3], Given[2], Given[1]>>

-----------------------------------------------------------------------------
(* Claims on the entries of a parsed text *)

\* the physical lines on which a logical line starts that is neither blank nor
\* a comment
ContentLines(txt) ==
    {i \in 1..Len(txt) : /\ StartsLogical(txt, i)
                         /\ TrimSpace(txt[i]) # ""
                         /\ ~HasPrefix(TrimSpace(txt[i]), "#")}

\* C30: when Parse returns a Configuration, it holds one entry for every
\* logical line of the text that is neither blank nor a comment, the last one
\* included when its final physical line ends in a backslash
C30_OneEntryPerLogicalLine ==
    (phase = 1 /\ pc = "done") => Len(rules) = Cardinality(ContentLines(input))

====
